---- MODULE Spec2Model ----
(***************************************************************************)
(* index_safe/extract_metadata.py: fetch the byte ranges an offset table   *)
(* names from a remote archive through a pool of worker threads, inflate   *)
(* each range as a raw deflate stream and write the results, joined in     *)
(* table order, to <slc_name>.xml.                                         *)
(*                                                                         *)
(* Bytes are modelled as one-character strings.  A raw deflate stream is a *)
(* run of literal bytes closed by the end-of-stream code; any byte that is *)
(* no literal and no end code is an invalid code.                          *)
(***************************************************************************)
EXTENDS Integers, Sequences, FiniteSets, TLC

VARIABLES
    doc,        \* the parsed offset-table json: the archives it lists, in order
    strategy,   \* extract_metadata's strategy argument
    net,        \* what the network does to the request of each fragment
    capacity,   \* ThreadPoolExecutor._max_workers
    pc,         \* position of the thread running extract_metadata
    offsets,    \* extract_metadata's local list of offsets
    client,     \* extract_metadata's local client: "s3", "http" or "unbound"
    fut,        \* the futures of executor.map, by position
    qhead,      \* position of the next work item a worker thread will dequeue
    nthreads,   \* threads the executor has spawned
    idle,       \* ThreadPoolExecutor._idle_semaphore
    m,          \* position of the future the result iterator is waiting on
    c,          \* position of the next future the iterator's finally cancels
    results,    \* the list being built from the result iterator
    exc,        \* the exception propagating out of the with block, if any
    requests,   \* range requests sent to the transport, in order of sending
    handed,     \* bodies handed to zlib's decompress, in order of handing
    sink,       \* the output file <slc_name>.xml
    error,      \* the exception extract_metadata raised to its caller
    census      \* the executor by numbers, for fragment sets too large to
                \* follow future by future

vars == <<doc, strategy, net, capacity, pc, offsets, client, fut,
          qhead, nthreads, idle, m, c, results, exc, requests, handed, sink,
          error, census>>

\* The variables of a run followed future by future.
run == <<pc, offsets, client, fut, qhead, nthreads, idle, m, c, results, exc,
         requests, handed, sink, error>>

inputs == <<doc, strategy, net, capacity>>

----------------------------------------------------------------------------
(* Bounds of the model. *)

MaxFragments == 2

\* Largest fragment set of the executor followed by numbers.
MaxTasks == 22

----------------------------------------------------------------------------
(* Data. *)

max_workers == 20

EndOfStream == "$"
InvalidCode == "!"

\* The remote archive: two members stored back to back, "AA" and "B".
Archive == <<"A", "A", "$", "B", "$">>

\* The body of a non-success response: an error document, not a deflate stream.
ErrorBody == <<"!">>

\* offset_start, offset_stop pairs an offset table may hold: the two members,
\* a range that stops short of the first member's end code, and an empty one.
OffsetValues == {<<0, 3>>, <<3, 5>>, <<0, 1>>, <<3, 3>>}

\* Keys of the inner mapping in the order the json declares them.
DeclaredNames == <<"b", "a", "c", "d">>

Strategies == {"s3", "http", "ftp"}

\* "ok": the range is served; "status": a non-success response carrying
\* ErrorBody; "cut": the body ends one byte early; "down": the request fails
\* in the client library (connection error, timeout).
Net == {"ok", "status", "cut", "down"}

NoError == [kind |-> "none", idx |-> 0]

Min(a, b) == IF a < b THEN a ELSE b

----------------------------------------------------------------------------
(* Pure functions.  A call that can raise returns [raised, value]: raised  *)
(* is the kind of the exception, "none" when the call returns value.       *)

Return(v) == [raised |-> "none", value |-> v]
Raise(kind) == [raised |-> kind, value |-> <<>>]

\* utils.Offset(start, stop): the range [start, stop), rejected unless
\* stop > start.
Offset(start, stop) ==
    IF stop <= start
    THEN Raise("ConfigError")
    ELSE Return([start |-> start, stop |-> stop])

\* utils.XmlMetadata(name, slc, offset)
XmlMetadata(name, slc, offset) == [name |-> name, slc |-> slc, offset |-> offset]

\* Mutant of xml_metadatas_from: the offsets are taken from the json as they
\* are, without constructing an Offset.
RECURSIVE xml_metadatas_unchecked(_, _, _, _)
xml_metadatas_unchecked(slc_name, files, k, acc) ==
    IF k > Len(files)
    THEN Return(acc)
    ELSE xml_metadatas_unchecked(slc_name, files, k + 1,
             Append(acc, XmlMetadata(files[k].name, slc_name,
                 [start |-> files[k].offset_start, stop |-> files[k].offset_stop])))

\* Mutant of xml_metadatas_from: each entry is put in front of the list
\* instead of at its end.
RECURSIVE xml_metadatas_prepended(_, _, _, _)
xml_metadatas_prepended(slc_name, files, k, acc) ==
    IF k > Len(files)
    THEN Return(acc)
    ELSE LET offset == Offset(files[k].offset_start, files[k].offset_stop)
         IN  IF offset.raised # "none"
             THEN Raise(offset.raised)
             ELSE xml_metadatas_prepended(slc_name, files, k + 1,
                      <<XmlMetadata(files[k].name, slc_name, offset.value)>> \o acc)

\* The loop of json_to_metadata_entries over the keys of the inner mapping,
\* from the k-th key on: one XmlMetadata per key, appended in key order; the
\* first Offset that raises ends the loop.
RECURSIVE xml_metadatas_from(_, _, _, _)
xml_metadatas_from(slc_name, files, k, acc) ==
    IF k > Len(files)
    THEN Return(acc)
    ELSE LET offset == Offset(files[k].offset_start, files[k].offset_stop)
         IN  IF offset.raised # "none"
             THEN Raise(offset.raised)
             ELSE xml_metadatas_from(slc_name, files, k + 1,
                      Append(acc, XmlMetadata(files[k].name, slc_name, offset.value)))

\* json_to_metadata_entries(json_path), on the parsed json: the first key of
\* the outer mapping is the archive; list(...)[0] of no keys is an IndexError.
json_to_metadata_entries(d) ==
    IF Len(d) = 0
    THEN Raise("IndexError")
    ELSE xml_metadatas_from(d[1].slc_name, d[1].files, 1, <<>>)

\* offsets = [metadata.offset for metadata in metadatas]
offsets_of(metadatas) == [k \in 1..Len(metadatas) |-> metadatas[k].offset]

\* Mutant of range_header: the stop offset is sent as the last byte.
range_header_to_stop(offset) == [first |-> offset.start, last |-> offset.stop]

\* range_header = f'bytes={offset.start}-{offset.stop - 1}': first and last
\* byte, both included.
range_header(offset) == [first |-> offset.start, last |-> offset.stop - 1]

\* The archive's bytes a server sends for a range header.
ServedBytes(header) ==
    SubSeq(Archive, header.first + 1, Min(header.last + 1, Len(Archive)))

\* A body that ends one byte early.
CutShort(body) == SubSeq(body, 1, Len(body) - 1)

\* client.get_object(...)['Body'].read(): botocore raises on a non-success
\* response, on a body shorter than its Content-Length and on a connection
\* failure.
s3_body(header, condition) ==
    IF condition = "ok" THEN Return(ServedBytes(header))
    ELSE Raise("TransportError")

\* client.get(url, headers=...).content: requests raises on a connection
\* failure only; the body of any response that arrives is returned as it is.
http_body(header, condition) ==
    CASE condition = "ok"     -> Return(ServedBytes(header))
      [] condition = "status" -> Return(ErrorBody)
      [] condition = "cut"    -> Return(CutShort(ServedBytes(header)))
      [] condition = "down"   -> Raise("TransportError")

\* zlib.decompressobj(-MAX_WBITS).decompress(body): literals are copied to the
\* output up to the end-of-stream code (what follows it is left in
\* unused_data); an invalid code raises zlib.error; input that runs out before
\* the end-of-stream code returns the output produced so far.
RECURSIVE inflate(_, _)
inflate(body, out) ==
    IF body = <<>> THEN Return(out)
    ELSE IF Head(body) = EndOfStream THEN Return(out)
    ELSE IF Head(body) = InvalidCode THEN Raise("zlib.error")
    ELSE inflate(Tail(body), Append(out, Head(body)))

decompress(body) == inflate(body, <<>>)

\* Mutant of extract_bytes: the second test is an else, any client that is
\* no botocore client is used as a requests session.
extract_bytes_else_http(offset, cl, condition) ==
    LET header == range_header(offset)
        resp   == IF cl = "s3" THEN s3_body(header, condition)
                  ELSE http_body(header, condition)
    IN  IF resp.raised # "none"
        THEN [request |-> <<header>>, handed |-> <<>>, outcome |-> resp]
        ELSE [request |-> <<header>>, handed |-> <<resp.value>>,
              outcome |-> decompress(resp.value)]

\* extract_bytes(url, offset, client): the request sent, the body handed to
\* the decoder (when one is) and the call's outcome.
extract_bytes(offset, cl, condition) ==
    LET header == range_header(offset)
        resp   == IF cl = "s3" THEN s3_body(header, condition)
                  ELSE http_body(header, condition)
    IN  IF cl \notin {"s3", "http"}
        THEN [request |-> <<>>, handed |-> <<>>, outcome |-> Raise("UnboundLocalError")]
        ELSE IF resp.raised # "none"
        THEN [request |-> <<header>>, handed |-> <<>>, outcome |-> resp]
        ELSE [request |-> <<header>>, handed |-> <<resp.value>>,
              outcome |-> decompress(resp.value)]

\* What an exception raised in extract_bytes can tell about the fragment, at
\* the most: a transport exception may name the url or key of the archive and
\* the range asked for; zlib.error has only zlib's message. The fragment's
\* name is not among extract_bytes's arguments.
exception_context(kind) ==
    IF kind = "TransportError" THEN {"archive_id", "range"} ELSE {}

\* b''.join(results)
RECURSIVE join(_)
join(bufs) == IF bufs = <<>> THEN <<>> ELSE Head(bufs) \o join(Tail(bufs))

----------------------------------------------------------------------------
(* Initial states: the arguments of extract_metadata and the environment.  *)

\* Inner mappings of up to MaxFragments entries.
FileLists ==
    UNION {{[k \in 1..n |-> [name |-> DeclaredNames[k],
                              offset_start |-> ov[k][1],
                              offset_stop |-> ov[k][2]]]
            : ov \in [1..n -> OffsetValues]}
           : n \in 0..MaxFragments}

\* Offset-table documents: no archive at all, or one archive.
Docs == {<<>>} \cup {<<[slc_name |-> "ARCHIVE1", files |-> f]>> : f \in FileLists}

NFiles(d) == IF Len(d) = 0 THEN 0 ELSE Len(d[1].files)

\* tasks: futures executor.map will create; submitted, pending, cancelled,
\* running: how many it has submitted, how many wait on the work queue, how
\* many were cancelled on the queue, how many a thread is running; threads,
\* idle: threads spawned and the idle semaphore; failed: a task has raised.
Census(n) ==
    [tasks |-> n, submitted |-> 0, pending |-> 0, cancelled |-> 0,
     running |-> 0, threads |-> 0, idle |-> 0, failed |-> FALSE]

NoCensus == Census(0)

NoSink == [exists |-> FALSE, data |-> <<>>, writes |-> 0]

Started ==
    /\ pc = "start"
    /\ offsets = <<>>
    /\ client = "unbound"
    /\ fut = <<>>
    /\ qhead = 1
    /\ nthreads = 0
    /\ idle = 0
    /\ m = 1
    /\ c = 0
    /\ results = <<>>
    /\ exc = NoError
    /\ requests = <<>>
    /\ handed = <<>>
    /\ sink = NoSink
    /\ error = NoError

Init ==
    /\ doc \in Docs
    /\ strategy \in Strategies
    /\ net \in [1..NFiles(doc) -> Net]
    /\ capacity = max_workers
    /\ census = NoCensus
    /\ Started

----------------------------------------------------------------------------
(* The thread running extract_metadata. *)

Future(state, result, exception) ==
    [state |-> state, result |-> result, exception |-> exception]

Running == {k \in 1..Len(fut) : fut[k].state = "RUNNING"}

\* metadatas = json_to_metadata_entries(json_file_path); offsets = [...]
LoadEntries ==
    /\ pc = "start"
    /\ LET r == json_to_metadata_entries(doc)
       IN  IF r.raised # "none"
           THEN /\ pc' = "raised"
                /\ error' = [kind |-> r.raised, idx |-> 0]
                /\ offsets' = offsets
           ELSE /\ pc' = "client"
                /\ offsets' = offsets_of(r.value)
                /\ error' = error
    /\ UNCHANGED <<inputs, census, client, fut, qhead, nthreads, idle, m, c, results,
                   exc, requests, handed, sink>>

\* if strategy == 's3': client = boto3.client(...)
\* elif strategy == 'http': client = requests.session()
MakeClient ==
    /\ pc = "client"
    /\ client' = IF strategy \in {"s3", "http"} THEN strategy ELSE "unbound"
    /\ pc' = "executor"
    /\ UNCHANGED <<inputs, census, offsets, fut, qhead, nthreads, idle, m, c, results,
                   exc, requests, handed, sink, error>>

\* with ThreadPoolExecutor(...) as executor: ... executor.map(extract_bytes,
\* repeat(url), offsets, repeat(client)): reading an unbound client raises
\* inside the with block, before map is called.
CallMap ==
    /\ pc = "executor"
    /\ IF client = "unbound"
       THEN /\ exc' = [kind |-> "UnboundLocalError", idx |-> 0]
            /\ pc' = "shutdown"
       ELSE /\ exc' = exc
            /\ pc' = "map"
    /\ UNCHANGED <<inputs, census, offsets, client, fut, qhead, nthreads, idle, m, c,
                   results, requests, handed, sink, error>>

\* Mutant of adjust_thread_count: a thread per submit, whatever the capacity.
adjust_thread_count_unbounded(idle_count, thread_count, cap) ==
    IF idle_count = 0 THEN thread_count + 1 ELSE thread_count

\* ThreadPoolExecutor._adjust_thread_count: the number of threads after a
\* submit; none is spawned when the idle semaphore can be taken or the pool
\* is at capacity.
adjust_thread_count(idle_count, thread_count, cap) ==
    IF idle_count = 0 /\ thread_count < cap
    THEN thread_count + 1
    ELSE thread_count

\* _idle_semaphore.acquire(timeout=0) in _adjust_thread_count.
acquire_idle(idle_count) == IF idle_count > 0 THEN idle_count - 1 ELSE idle_count

\* Executor.map: fs = [self.submit(fn, *args) for args in zip(*iterables)],
\* one submit: a pending future, a work item on the queue, perhaps a thread.
Submit ==
    /\ pc = "map"
    /\ Len(fut) < Len(offsets)
    /\ fut' = Append(fut, Future("PENDING", <<>>, "none"))
    /\ nthreads' = adjust_thread_count(idle, nthreads, capacity)
    /\ idle' = acquire_idle(idle)
    /\ UNCHANGED <<inputs, census, pc, offsets, client, qhead, m, c, results, exc,
                   requests, handed, sink, error>>

\* Mutant of Collect: results are taken as they complete (as_completed).
CollectAsCompleted ==
    /\ pc = "map"
    /\ Len(fut) = Len(offsets)
    /\ m <= Len(fut)
    /\ \E k \in 1..Len(fut) :
          /\ fut[k].state = "FINISHED"
          /\ fut[k].exception = "none"
          /\ results' = Append(results, fut[k].result)
    /\ m' = m + 1
    /\ UNCHANGED <<inputs, census, pc, offsets, client, fut, qhead, nthreads, idle, c,
                   exc, requests, handed, sink, error>>

\* result_iterator: yield fs.pop().result(), the futures taken in the order
\* of submission; list(...) appends what is yielded.
Collect ==
    /\ pc = "map"
    /\ Len(fut) = Len(offsets)
    /\ m <= Len(fut)
    /\ fut[m].state = "FINISHED"
    /\ fut[m].exception = "none"
    /\ results' = Append(results, fut[m].result)
    /\ m' = m + 1
    /\ UNCHANGED <<inputs, census, pc, offsets, client, fut, qhead, nthreads, idle, c,
                   exc, requests, handed, sink, error>>

\* Mutant of CollectRaises: a future's exception is swallowed and the
\* iterator moves on.
CollectSkipsFailure ==
    /\ pc = "map"
    /\ Len(fut) = Len(offsets)
    /\ m <= Len(fut)
    /\ fut[m].state = "FINISHED"
    /\ fut[m].exception # "none"
    /\ m' = m + 1
    /\ UNCHANGED <<inputs, census, pc, offsets, client, fut, qhead, nthreads, idle, c,
                   results, exc, requests, handed, sink, error>>

\* Mutant of CollectRaises: the failure raised is that of any future that
\* has failed, not that of the future the iterator is waiting on.
CollectRaisesAnyFailed ==
    /\ pc = "map"
    /\ Len(fut) = Len(offsets)
    /\ m <= Len(fut)
    /\ \E k \in m..Len(fut) :
          /\ fut[k].state = "FINISHED"
          /\ fut[k].exception # "none"
          /\ exc' = [kind |-> fut[k].exception, idx |-> k]
    /\ c' = Len(fut)
    /\ pc' = IF m = Len(fut) THEN "shutdown" ELSE "cancel"
    /\ UNCHANGED <<inputs, census, offsets, client, fut, qhead, nthreads, idle, m,
                   results, requests, handed, sink, error>>

\* fs.pop().result() raises the future's exception: the iterator's finally
\* clause starts cancelling the futures left in fs, the last submitted first.
CollectRaises ==
    /\ pc = "map"
    /\ Len(fut) = Len(offsets)
    /\ m <= Len(fut)
    /\ fut[m].state = "FINISHED"
    /\ fut[m].exception # "none"
    /\ exc' = [kind |-> fut[m].exception, idx |-> m]
    /\ c' = Len(fut)
    /\ pc' = IF m = Len(fut) THEN "shutdown" ELSE "cancel"
    /\ UNCHANGED <<inputs, census, offsets, client, fut, qhead, nthreads, idle, m,
                   results, requests, handed, sink, error>>

\* Mutant of CancelNext: the futures left are passed over, none is cancelled.
CancelNextCancelsNothing ==
    /\ pc = "cancel"
    /\ c > m
    /\ c' = c - 1
    /\ pc' = IF c - 1 = m THEN "shutdown" ELSE "cancel"
    /\ UNCHANGED <<inputs, census, offsets, client, fut, qhead, nthreads, idle, m,
                   results, exc, requests, handed, sink, error>>

\* for future in fs: future.cancel(): only a pending future is cancelled.
CancelNext ==
    /\ pc = "cancel"
    /\ c > m
    /\ fut' = [fut EXCEPT ![c].state =
                  IF @ = "PENDING" THEN "CANCELLED" ELSE @]
    /\ c' = c - 1
    /\ pc' = IF c - 1 = m THEN "shutdown" ELSE "cancel"
    /\ UNCHANGED <<inputs, census, offsets, client, qhead, nthreads, idle, m, results,
                   exc, requests, handed, sink, error>>

\* The result iterator is exhausted: list(...) is complete and the with
\* block is left.
CollectDone ==
    /\ pc = "map"
    /\ Len(fut) = Len(offsets)
    /\ m = Len(fut) + 1
    /\ pc' = "shutdown"
    /\ UNCHANGED <<inputs, census, offsets, client, fut, qhead, nthreads, idle, m, c,
                   results, exc, requests, handed, sink, error>>

\* Mutant of Shutdown: shutdown(wait=False), the with block is left without
\* joining the worker threads.
ShutdownNoWait ==
    /\ pc = "shutdown"
    /\ IF exc # NoError
       THEN pc' = "raised" /\ error' = exc
       ELSE pc' = "join" /\ error' = error
    /\ UNCHANGED <<inputs, census, offsets, client, fut, qhead, nthreads, idle, m, c,
                   results, exc, requests, handed, sink>>

\* Mutant of Shutdown: the exception is dropped when the with block is left.
ShutdownSwallows ==
    /\ pc = "shutdown"
    /\ qhead > Len(fut)
    /\ Running = {}
    /\ pc' = "join"
    /\ UNCHANGED <<inputs, census, offsets, client, fut, qhead, nthreads, idle, m, c,
                   results, exc, requests, handed, sink, error>>

\* ThreadPoolExecutor.__exit__: shutdown(wait=True) returns once the work
\* queue is drained and every worker thread has ended; then the exception
\* propagates, or the statement after the with block is reached.
Shutdown ==
    /\ pc = "shutdown"
    /\ qhead > Len(fut)
    /\ Running = {}
    /\ IF exc # NoError
       THEN pc' = "raised" /\ error' = exc
       ELSE pc' = "join" /\ error' = error
    /\ UNCHANGED <<inputs, census, offsets, client, fut, qhead, nthreads, idle, m, c,
                   results, exc, requests, handed, sink>>

\* content = b''.join(results); with open(f'{slc_name}.xml', 'wb') as f:
OpenSink ==
    /\ pc = "join"
    /\ sink' = [exists |-> TRUE, data |-> <<>>, writes |-> 0]
    /\ pc' = "write"
    /\ UNCHANGED <<inputs, census, offsets, client, fut, qhead, nthreads, idle, m, c,
                   results, exc, requests, handed, error>>

\* f.write(content)
WriteSink ==
    /\ pc = "write"
    /\ sink' = [sink EXCEPT !.data = @ \o join(results), !.writes = @ + 1]
    /\ pc' = "done"
    /\ UNCHANGED <<inputs, census, offsets, client, fut, qhead, nthreads, idle, m, c,
                   results, exc, requests, handed, error>>

----------------------------------------------------------------------------
(* The worker threads of the pool (concurrent.futures.thread._worker). *)

\* A spawned thread that is running no work item.
ThreadFree == nthreads > Cardinality(Running)

\* work_queue.get(); work_item.run(): the future is set running and
\* extract_bytes sends its range request.
Start(i) ==
    /\ i = qhead
    /\ i <= Len(fut)
    /\ ThreadFree
    /\ fut[i].state = "PENDING"
    /\ fut' = [fut EXCEPT ![i].state = "RUNNING"]
    /\ qhead' = qhead + 1
    /\ requests' = requests \o
           [k \in 1..Len(extract_bytes(offsets[i], client, net[i]).request) |->
               [idx |-> i, header |-> extract_bytes(offsets[i], client, net[i]).request[k]]]
    /\ UNCHANGED <<inputs, census, pc, offsets, client, nthreads, idle, m, c, results,
                   exc, handed, sink, error>>

\* work_item.run() of a cancelled future returns at once.
Skip(i) ==
    /\ i = qhead
    /\ i <= Len(fut)
    /\ ThreadFree
    /\ fut[i].state = "CANCELLED"
    /\ qhead' = qhead + 1
    /\ idle' = idle + 1
    /\ UNCHANGED <<inputs, census, pc, offsets, client, fut, nthreads, m, c, results,
                   exc, requests, handed, sink, error>>

\* Mutant of Finish: a request that failed in the transport is sent once more.
FinishRetries(i) ==
    /\ i \in Running
    /\ LET e == extract_bytes(offsets[i], client, net[i])
           sent == Cardinality({j \in 1..Len(requests) : requests[j].idx = i})
       IN  IF e.outcome.raised = "TransportError" /\ sent < 2
           THEN /\ requests' = Append(requests, [idx |-> i, header |-> e.request[1]])
                /\ UNCHANGED <<fut, handed, idle>>
           ELSE /\ fut' = [fut EXCEPT ![i] =
                              Future("FINISHED", e.outcome.value, e.outcome.raised)]
                /\ handed' = handed \o [k \in 1..Len(e.handed) |->
                                           [idx |-> i, body |-> e.handed[k]]]
                /\ idle' = idle + 1
                /\ requests' = requests
    /\ UNCHANGED <<inputs, census, pc, offsets, client, qhead, nthreads, m, c, results,
                   exc, sink, error>>

\* The response arrives: extract_bytes decompresses it and returns, or
\* raises; the future is set and the thread is idle again.
Finish(i) ==
    /\ i \in Running
    /\ LET e == extract_bytes(offsets[i], client, net[i])
       IN  /\ fut' = [fut EXCEPT ![i] =
                         Future("FINISHED", e.outcome.value, e.outcome.raised)]
           /\ handed' = handed \o [k \in 1..Len(e.handed) |->
                                      [idx |-> i, body |-> e.handed[k]]]
    /\ idle' = idle + 1
    /\ UNCHANGED <<inputs, census, pc, offsets, client, qhead, nthreads, m, c, results,
                   exc, requests, sink, error>>

Positions == 1..Len(fut)

----------------------------------------------------------------------------

Next ==
    \/ LoadEntries
    \/ MakeClient
    \/ CallMap
    \/ Submit
    \/ Collect
    \/ CollectRaises
    \/ CancelNext
    \/ CollectDone
    \/ Shutdown
    \/ OpenSink
    \/ WriteSink
    \/ \E i \in Positions : Start(i)
    \/ \E i \in Positions : Skip(i)
    \/ \E i \in Positions : Finish(i)

Spec == Init /\ [][Next]_vars

\* The threads are scheduled and every request sent gets its answer or its
\* failure: a step that can be taken is taken.
FairSpec == Spec /\ WF_vars(Next)

\* The same run with the pool built for one worker or for max_workers.
PoolSizeInit ==
    /\ doc \in Docs
    /\ strategy \in Strategies
    /\ net \in [1..NFiles(doc) -> Net]
    /\ capacity \in {1, max_workers}
    /\ census = NoCensus
    /\ Started

PoolSizeSpec == PoolSizeInit /\ [][Next]_vars

----------------------------------------------------------------------------
(* extract_bytes called by a caller of its own, with whatever client the    *)
(* caller has, once per offset and one call after the other.                *)

Clients == {"s3", "http", "other"}

DirectInit ==
    /\ doc \in {d \in Docs : NFiles(d) > 0 /\ json_to_metadata_entries(d).raised = "none"}
    /\ client \in Clients
    /\ strategy = (IF client = "other" THEN "ftp" ELSE client)
    /\ net \in [1..NFiles(doc) -> Net]
    /\ capacity = max_workers
    /\ census = NoCensus
    /\ pc = "worker"
    /\ offsets = offsets_of(json_to_metadata_entries(doc).value)
    /\ fut = <<>>
    /\ qhead = 1
    /\ nthreads = 0
    /\ idle = 0
    /\ m = 1
    /\ c = 0
    /\ results = <<>>
    /\ exc = NoError
    /\ requests = <<>>
    /\ handed = <<>>
    /\ sink = NoSink
    /\ error = NoError

\* One call of extract_bytes, from its first line to its return or raise.
DirectCall ==
    /\ pc = "worker"
    /\ Len(fut) < Len(offsets)
    /\ LET i == Len(fut) + 1
           e == extract_bytes(offsets[i], client, net[i])
       IN  /\ fut' = Append(fut, Future("FINISHED", e.outcome.value, e.outcome.raised))
           /\ requests' = requests \o
                  [k \in 1..Len(e.request) |-> [idx |-> i, header |-> e.request[k]]]
           /\ handed' = handed \o
                  [k \in 1..Len(e.handed) |-> [idx |-> i, body |-> e.handed[k]]]
    /\ UNCHANGED <<inputs, census, pc, offsets, client, qhead, nthreads, idle, m, c,
                   results, exc, sink, error>>

CallerInit == Init \/ DirectInit

CallerNext == Next \/ DirectCall

\* Runs of extract_metadata and runs of a caller of extract_bytes.
CallerSpec == CallerInit /\ [][CallerNext]_vars

----------------------------------------------------------------------------
(* The executor by numbers: the same submit, worker and cancel steps with   *)
(* the futures counted instead of told apart, so that fragment sets larger  *)
(* than the pool can be explored.                                           *)

\* Only census moves in these runs: the variables of a run followed future by
\* future keep their starting values.
PoolInit ==
    /\ doc = <<>>
    /\ strategy = "s3"
    /\ net = <<>>
    /\ capacity = max_workers
    /\ census \in {Census(n) : n \in 0..MaxTasks}
    /\ Started

\* Executor.map: one self.submit(fn, *args).
PoolSubmit ==
    /\ census.submitted < census.tasks
    /\ census' = [census EXCEPT
           !.submitted = @ + 1,
           !.pending = @ + 1,
           !.threads = adjust_thread_count(census.idle, census.threads, capacity),
           !.idle = acquire_idle(census.idle)]
    /\ UNCHANGED <<inputs, run>>

\* _worker: a free thread takes the oldest work item and runs it.
PoolStart ==
    /\ census.pending > 0
    /\ census.threads > census.running
    /\ census' = [census EXCEPT !.pending = @ - 1, !.running = @ + 1]
    /\ UNCHANGED <<inputs, run>>

\* _worker: extract_bytes returns or raises; the thread is idle again.
PoolFinish ==
    /\ census.running > 0
    /\ \E raised \in BOOLEAN :
          census' = [census EXCEPT
              !.running = @ - 1,
              !.idle = @ + 1,
              !.failed = @ \/ raised]
    /\ UNCHANGED <<inputs, run>>

\* result_iterator's finally: a future still pending is cancelled, the last
\* submitted first, so the cancelled items are the tail of the work queue.
PoolCancel ==
    /\ census.submitted = census.tasks
    /\ census.failed
    /\ census.pending > 0
    /\ census' = [census EXCEPT !.pending = @ - 1, !.cancelled = @ + 1]
    /\ UNCHANGED <<inputs, run>>

\* _worker: a cancelled work item is dropped when it reaches the queue head.
PoolSkip ==
    /\ census.pending = 0
    /\ census.cancelled > 0
    /\ census.threads > census.running
    /\ census' = [census EXCEPT !.cancelled = @ - 1, !.idle = @ + 1]
    /\ UNCHANGED <<inputs, run>>

PoolNext ==
    \/ PoolSubmit
    \/ PoolStart
    \/ PoolFinish
    \/ PoolCancel
    \/ PoolSkip

PoolSpec == PoolInit /\ [][PoolNext]_vars

----------------------------------------------------------------------------
(* Vocabulary of the properties. *)

\* The range the table declares for its k-th fragment.
DeclaredRange(k) ==
    [start |-> doc[1].files[k].offset_start, stop |-> doc[1].files[k].offset_stop]

\* decode(fetch(range_k)) under the run's strategy and network.
Decoded(k) == extract_bytes(DeclaredRange(k), strategy, net[k]).outcome.value

\* Concatenation of a sequence of buffers, first to last.
RECURSIVE InOrder(_)
InOrder(bufs) ==
    IF Len(bufs) = 0 THEN <<>>
    ELSE InOrder(SubSeq(bufs, 1, Len(bufs) - 1)) \o bufs[Len(bufs)]

\* Futures whose fetch or decode raised.
Failed == {k \in 1..Len(fut) :
              fut[k].state = "FINISHED" /\ fut[k].exception # "none"}

\* Futures whose fetch and decode returned.
Succeeded == {k \in 1..Len(fut) :
                 fut[k].state = "FINISHED" /\ fut[k].exception = "none"}

Terminated == pc \in {"done", "raised"}

----------------------------------------------------------------------------
(* Properties. *)

\* C1: position k of the collected results always holds the decoded bytes of
\* descriptor k, and a finished run has written exactly the concatenation of
\* decode(fetch(range_k)) for k in table order, whatever order the workers
\* completed in.
C1_OutputInInputOrder ==
    /\ \A k \in 1..Len(results) : results[k] = Decoded(k)
    /\ pc = "done" =>
           sink.data = InOrder([k \in 1..NFiles(doc) |-> Decoded(k)])

\* C1 witness: fragments "AA" then "B" were written as AAB although the
\* second fragment's worker was the first to complete.
C1_Witness ==
    /\ pc = "done"
    /\ Len(handed) = 2
    /\ handed[1].idx = 2
    /\ sink.data = <<"A", "A", "B">>

\* C2: once the fetch or decode of any descriptor has raised, the output file
\* is never opened or written and the run cannot end in success.
C2_NoArtifactAfterFailure ==
    Failed # {} => sink = NoSink /\ pc \notin {"join", "write", "done"}

\* C2 witness: the run has failed with one descriptor's result complete and
\* discarded, and no file exists.
C2_Witness ==
    /\ pc = "raised"
    /\ Failed # {}
    /\ Succeeded # {}
    /\ sink = NoSink


\* C3: the fetches in flight at once never number more than the pool's 20
\* threads, however many fragments were submitted.
C3_InFlightAtMostTwenty ==
    /\ census.running <= max_workers
    /\ census.threads <= max_workers

\* C3 witness: more fragments than threads; the pool is full and work waits.
C3_Witness ==
    /\ census.tasks > max_workers
    /\ census.running = max_workers
    /\ census.pending > 0


\* The orchestrator is blocked on a worker whose request is in flight: in
\* fs.pop().result() of a running future, or in shutdown(wait=True).
WaitingOnWorker ==
    \/ /\ pc = "map"
       /\ Len(fut) = Len(offsets)
       /\ m <= Len(fut)
       /\ fut[m].state = "RUNNING"
    \/ pc = "shutdown" /\ Running # {}

CompleteArtifact ==
    /\ sink.exists
    /\ sink.writes = 1
    /\ \A k \in 1..NFiles(doc) : k \in Succeeded
    /\ sink.data = InOrder([k \in 1..NFiles(doc) |-> Decoded(k)])

FinalStateAllOrNothing ==
    \/ pc = "done" /\ error = NoError /\ Failed = {} /\ CompleteArtifact
    \/ pc = "raised" /\ error # NoError /\ sink = NoSink

\* C5: when every step that can be taken is taken, the run ends, and it ends
\* either in success with the complete file written once or in failure with
\* no file.
C5_TerminatesAllOrNothing ==
    /\ <>Terminated
    /\ [](Terminated => FinalStateAllOrNothing)

\* C5 witness: a run over two fragments has ended in success with one write.
C5_Witness ==
    /\ pc = "done"
    /\ NFiles(doc) = 2
    /\ sink.writes = 1
    /\ Len(sink.data) > 0

\* extract_metadata run on one thread: the fragments fetched and decoded one
\* after the other, from the k-th on; the first that raises ends the run.
RECURSIVE one_by_one(_, _)
one_by_one(k, content) ==
    IF k > NFiles(doc)
    THEN [raised |-> "none", idx |-> 0, data |-> content]
    ELSE LET e == extract_bytes(DeclaredRange(k), strategy, net[k]).outcome
         IN  IF e.raised # "none"
             THEN [raised |-> e.raised, idx |-> k, data |-> <<>>]
             ELSE one_by_one(k + 1, content \o e.value)

SequentialOutcome ==
    IF json_to_metadata_entries(doc).raised # "none"
    THEN [raised |-> json_to_metadata_entries(doc).raised, idx |-> 0, data |-> <<>>]
    ELSE IF strategy \notin {"s3", "http"}
    THEN [raised |-> "UnboundLocalError", idx |-> 0, data |-> <<>>]
    ELSE one_by_one(1, <<>>)

Outcome == [raised |-> error.kind, idx |-> error.idx, data |-> sink.data]

\* C6: with one worker or with max_workers, in every interleaving, a run ends
\* with the bytes and the success or failure of the run that handles the
\* fragments one after the other.
C6_PoolSizeDoesNotChangeOutcome ==
    Terminated =>
        /\ Outcome = SequentialOutcome
        /\ (pc = "done") = (SequentialOutcome.raised = "none")

\* C6 witness: a pool of one worker has run two fragments on its single
\* thread and the run has ended in success.
C6_Witness ==
    /\ capacity = 1
    /\ nthreads = 1
    /\ pc = "done"
    /\ Len(results) = 2

\* The table declares a range with offset_stop <= offset_start.
DeclaresInvalidRange ==
    \E k \in 1..NFiles(doc) :
        doc[1].files[k].offset_stop <= doc[1].files[k].offset_start

C8_EmptyTableRejected ==
    NFiles(doc) = 0 =>
        /\ requests = <<>>
        /\ sink = NoSink
        /\ Terminated => pc = "raised"

\* C9 as claimed: a request that met a non-success response, a short body or
\* a network failure ends in a transport error, and its body is never handed
\* to the decoder.
C9_FailedResponseNeverDecoded ==
    /\ \A k \in 1..Len(handed) : net[handed[k].idx] = "ok"
    /\ \A k \in 1..Len(fut) :
           (fut[k].state = "FINISHED" /\ net[k] # "ok") =>
               fut[k].exception = "TransportError"

\* A complete raw stream: literals closed by the end-of-stream code.
CompleteStream(body) ==
    \E j \in 1..Len(body) :
        /\ body[j] = EndOfStream
        /\ \A i \in 1..(j - 1) : body[i] \notin {EndOfStream, InvalidCode}

\* C10 as claimed: decoding bytes that are no complete valid raw stream
\* raises, so that such bytes never yield a buffer returned to the
\* orchestrator.
C10_IncompleteStreamRejected ==
    \A k \in 1..Len(handed) :
        ~CompleteStream(handed[k].body) =>
            fut[handed[k].idx].exception = "zlib.error"


\* Requests sent, and bodies handed to the decoder, for the k-th fragment.
RequestsFor(k) == Cardinality({j \in 1..Len(requests) : requests[j].idx = k})
HandedFor(k) == Cardinality({j \in 1..Len(handed) : handed[j].idx = k})

\* C11: every fragment gets at most one request and, after it, at most one
\* decode; none before its work item is started; exactly one of each in a
\* run that succeeds. A failed fetch is never sent again.
C11_OneRequestOneDecode ==
    \A k \in 1..NFiles(doc) :
        /\ RequestsFor(k) <= 1
        /\ HandedFor(k) <= RequestsFor(k)
        /\ (k > Len(fut) \/ fut[k].state \in {"PENDING", "CANCELLED"}) =>
               RequestsFor(k) = 0
        /\ (k <= Len(fut) /\ fut[k].state \in {"RUNNING", "FINISHED"}) =>
               RequestsFor(k) = 1
        /\ pc = "done" => RequestsFor(k) = 1 /\ HandedFor(k) = 1

\* C11 witness: a run of two fragments has failed on a transport error with
\* two requests sent in all.
C11_Witness ==
    /\ pc = "raised"
    /\ error.kind = "TransportError"
    /\ NFiles(doc) = 2
    /\ Len(requests) = 2

\* C12: with either client, the request for a fragment asks for the bytes
\* offset_start to offset_stop - 1, both included: offset_stop - offset_start
\* bytes, which is what a served body holds.
C12_InclusiveRangeOnTheWire ==
    /\ \A j \in 1..Len(requests) :
           LET range == DeclaredRange(requests[j].idx)
               header == requests[j].header
           IN  /\ header.first = range.start
               /\ header.last = range.stop - 1
               /\ header.last - header.first + 1 = range.stop - range.start
    /\ \A j \in 1..Len(handed) :
           LET range == DeclaredRange(handed[j].idx)
           IN  net[handed[j].idx] = "ok" =>
                   /\ Len(handed[j].body) = range.stop - range.start
                   /\ handed[j].body =
                          SubSeq(Archive, range.start + 1, range.stop)

\* C12 witness: the http client has asked for bytes 3 to 4 of the range
\* [3, 5) and got the two bytes of the second member.
C12_Witness ==
    /\ strategy = "http"
    /\ \E j \in 1..Len(requests) : requests[j].header = [first |-> 3, last |-> 4]
    /\ \E j \in 1..Len(handed) : handed[j].body = <<"B", "$">>

\* The entries could be built: the table names an archive and every range
\* was accepted.
EntriesBuilt ==
    /\ pc # "start"
    /\ ~(pc = "raised" /\ error.kind \in {"IndexError", "ConfigError"})

\* C13: the entries built from the table are one per key of the archive's
\* inner mapping, in the order the keys are declared, each with the range
\* [offset_start, offset_stop); the list of offsets handed to the pool has
\* that order and length.
C13_EntriesInDeclaredOrder ==
    /\ LET built == json_to_metadata_entries(doc)
       IN  built.raised = "none" =>
               /\ Len(built.value) = NFiles(doc)
               /\ \A k \in 1..NFiles(doc) :
                      built.value[k] = [name |-> doc[1].files[k].name,
                                        slc |-> doc[1].slc_name,
                                        offset |-> DeclaredRange(k)]
    /\ EntriesBuilt =>
           /\ Len(offsets) = NFiles(doc)
           /\ \A k \in 1..NFiles(doc) : offsets[k] = DeclaredRange(k)

\* C13 witness: keys declared as b then a, with different ranges, gave the
\* offsets in that order.
C13_Witness ==
    /\ pc = "client"
    /\ NFiles(doc) = 2
    /\ doc[1].files[1].name = "b"
    /\ doc[1].files[2].name = "a"
    /\ offsets = <<[start |-> 0, stop |-> 3], [start |-> 3, stop |-> 5]>>


\* C14 as claimed: the error that ends a run on a fragment's fetch or decode
\* tells which fragment failed: its name, its archive and its range. (idx is
\* the position of the future whose exception left the iterator; the
\* exception itself holds what exception_context says.)
C14_ErrorNamesTheFragment ==
    (pc = "raised" /\ error.idx > 0) =>
        {"name", "archive_id", "range"} \subseteq exception_context(error.kind)

\* C15 as claimed: from the first failure of a worker on, no request is sent
\* for a fragment whose fetch had not begun.
C15_NoStartAfterFirstFailure ==
    [][Failed # {} => requests' = requests]_vars

\* The iterator has raised a worker's failure and is through cancelling.
FailureTakenUp == exc.idx > 0 /\ pc \in {"shutdown", "raised"}

\* C15 as amended: once the iterator has raised a worker's failure and has
\* cancelled the futures still pending, no request is sent any more; and a
\* running future is never cancelled, it runs on to its end.
C15_NoStartAfterCancel ==
    [][/\ FailureTakenUp => requests' = requests
       /\ \A k \in Running : fut'[k].state \in {"RUNNING", "FINISHED"}]_vars

\* C15 witness: the run failed on the first fragment; the second was
\* cancelled on the queue and no request was ever sent for it.
C15_Witness ==
    /\ pc = "raised"
    /\ error.idx = 1
    /\ Len(fut) = 2
    /\ fut[2].state = "CANCELLED"
    /\ RequestsFor(2) = 0

\* The fragments whose fetch or decode raises, by the table, the client and
\* the network alone.
BoundToFail ==
    {k \in 1..NFiles(doc) :
        extract_bytes(DeclaredRange(k), strategy, net[k]).outcome.raised # "none"}

IsLowestFailure(e) ==
    /\ e.idx \in Failed
    /\ e.kind = fut[e.idx].exception
    /\ \A k \in Failed : e.idx <= k
    /\ e.idx \in BoundToFail
    /\ \A k \in BoundToFail : e.idx <= k

\* C16: the failure the iterator raises, and the run reports, is that of the
\* lowest-index fragment that fails, whichever failure came first in time.
C16_LowestIndexFailureReported ==
    /\ exc.idx > 0 => IsLowestFailure(exc)
    /\ error.idx > 0 => IsLowestFailure(error)

\* C16 witness: both fragments failed, the second one first, and the run
\* reported the first fragment's failure.
C16_Witness ==
    /\ pc = "raised"
    /\ error.idx = 1
    /\ Failed = {1, 2}
    /\ Len(handed) = 2
    /\ handed[1].idx = 2

\* C17: when extract_metadata has left the with block, to write the file, to
\* return or to raise, no worker runs: the work queue is drained, every
\* future is finished or cancelled and every request sent was answered. The
\* file is touched only then.
C17_NoWorkerOutlivesTheCall ==
    /\ pc \in {"join", "write", "done", "raised"} =>
           /\ Running = {}
           /\ qhead > Len(fut)
           /\ \A k \in 1..Len(fut) :
                  /\ fut[k].state \in {"FINISHED", "CANCELLED"}
                  /\ fut[k].state = "FINISHED" <=> RequestsFor(k) = 1
    /\ sink # NoSink => Running = {}

\* C17 witness: the run raised the first fragment's failure after the second
\* fragment's request, sent as well, had been answered.
C17_Witness ==
    /\ pc = "raised"
    /\ error.idx = 1
    /\ Len(fut) = 2
    /\ RequestsFor(2) = 1
    /\ fut[2].state = "FINISHED"

\* C18: with a strategy that is neither s3 nor http no client is made, no
\* work item is submitted, no request is sent and no file is written, and
\* the run raises; and extract_bytes called with a client of neither kind
\* raises without a request sent or a buffer decoded.
C18_UnknownClientFetchesNothing ==
    /\ (strategy \notin {"s3", "http"} /\ pc # "worker") =>
           /\ client = "unbound"
           /\ fut = <<>>
           /\ sink = NoSink
           /\ pc \notin {"map", "cancel", "join", "write", "done"}
           /\ pc = "raised" =>
                  error.kind \in {"IndexError", "ConfigError", "UnboundLocalError"}
    /\ client \notin {"s3", "http"} =>
           /\ requests = <<>>
           /\ handed = <<>>
           /\ \A k \in 1..Len(fut) :
                  /\ fut[k].exception = "UnboundLocalError"
                  /\ fut[k].result = <<>>

\* C18 witness: extract_bytes was called twice with a client of neither kind
\* and raised twice.
C18_Witness ==
    /\ pc = "worker"
    /\ client = "other"
    /\ Len(fut) = 2

====
